---- MODULE Spec2Model ----
(***************************************************************************)
(* Model of the water-leakage dashboard's telemetry pipeline               *)
(* (src/unnamed/part_000): the pure validators, the sensor-set fallback    *)
(* subscription, the per-sensor chart subscriptions with their rolling     *)
(* window, the history filter and the global leak computation.             *)
(*                                                                         *)
(* The realtime database is outside the repository.  It is modelled as a   *)
(* push source: a value or error callback of a subscription runs as one    *)
(* atomic step, only while that subscription is registered, and an error   *)
(* (cancel) callback ends the registration it is delivered on.             *)
(***************************************************************************)
EXTENDS Integers, Sequences, FiniteSets, TLC

(***************************************************************************)
(* JavaScript values.  A number is an exact decimal m * 10^(-e), or NaN,   *)
(* or an infinity; a string is a sequence of one-character strings; an     *)
(* object is the sequence of its entries in Object.entries order.          *)
(***************************************************************************)
Undefined == [t |-> "undefined"]

Null == [t |-> "null"]

RECURSIVE Canon(_, _)
Canon(m, e) ==
    IF e > 0 /\ m % 10 = 0 THEN Canon(m \div 10, e - 1)
    ELSE [t |-> "number", k |-> "fin", m |-> m, e |-> e]

Dec(m, e) == Canon(m, e)

Num(n) == Dec(n, 0)

NaN == [t |-> "number", k |-> "nan", m |-> 0, e |-> 0]

PosInfinity == [t |-> "number", k |-> "inf", m |-> 1, e |-> 0]

NegInfinity == [t |-> "number", k |-> "inf", m |-> -1, e |-> 0]

Str(s) == [t |-> "string", s |-> s]

Obj(es) == [t |-> "object", es |-> es]

Entry(key, val) == [key |-> key, val |-> val]

TypeOf(x) == IF x.t = "null" THEN "object" ELSE x.t

\* Number.isFinite: true only for values of type number that are finite
NumberIsFinite(x) == x.t = "number" /\ x.k = "fin"

\* ToBoolean, as used by `!data` and `if (data)`
Truthy(x) ==
    CASE x.t = "undefined" -> FALSE
      [] x.t = "null" -> FALSE
      [] x.t = "number" -> ~(x.k = "nan") /\ ~(x.k = "fin" /\ x.m = 0)
      [] x.t = "string" -> Len(x.s) > 0
      [] OTHER -> TRUE

\* value?.name : undefined for null, undefined, primitives and missing keys
Get(x, name) ==
    IF x.t = "object" /\ \E i \in 1..Len(x.es) : x.es[i].key = name
    THEN x.es[CHOOSE i \in 1..Len(x.es) : x.es[i].key = name].val
    ELSE Undefined

Keys(x) == IF x.t = "object" THEN {x.es[i].key : i \in 1..Len(x.es)} ELSE {}

\* acc[key] = val on an object: replaces in place or appends a new entry
Put(es, key, val) ==
    IF \E i \in 1..Len(es) : es[i].key = key
    THEN [i \in 1..Len(es) |-> IF es[i].key = key THEN Entry(key, val) ELSE es[i]]
    ELSE Append(es, Entry(key, val))

RECURSIVE Pow10(_)
Pow10(n) == IF n = 0 THEN 1 ELSE 10 * Pow10(n - 1)

\* a > b on numbers (false when either is NaN)
NumGt(a, b) ==
    CASE a.k = "nan" \/ b.k = "nan" -> FALSE
      [] a.k = "inf" /\ b.k = "inf" -> a.m > b.m
      [] a.k = "inf" -> a.m > 0
      [] b.k = "inf" -> b.m < 0
      [] OTHER -> a.m * Pow10(b.e) > b.m * Pow10(a.e)

\* a >= b on numbers (false when either is NaN)
NumGeq(a, b) ==
    CASE a.k = "nan" \/ b.k = "nan" -> FALSE
      [] a.k = "inf" /\ b.k = "inf" -> a.m >= b.m
      [] a.k = "inf" -> a.m > 0
      [] b.k = "inf" -> b.m < 0
      [] OTHER -> a.m * Pow10(b.e) >= b.m * Pow10(a.e)

(***************************************************************************)
(* parseFloat on the modelled strings (digits, '.', '-', '+', blanks and   *)
(* letters; no exponent and no "Infinity" literal occur in them).          *)
(***************************************************************************)
Digits == {"0", "1", "2", "3", "4", "5", "6", "7", "8", "9"}

DigitVal(c) ==
    CASE c = "0" -> 0 [] c = "1" -> 1 [] c = "2" -> 2 [] c = "3" -> 3
      [] c = "4" -> 4 [] c = "5" -> 5 [] c = "6" -> 6 [] c = "7" -> 7
      [] c = "8" -> 8 [] c = "9" -> 9

RECURSIVE SkipBlanks(_, _)
SkipBlanks(s, i) ==
    IF i <= Len(s) /\ s[i] = " " THEN SkipBlanks(s, i + 1) ELSE i

\* the longest run of digits of s starting at position i, as <<value, count>>
RECURSIVE ReadDigits(_, _, _, _)
ReadDigits(s, i, acc, n) ==
    IF i <= Len(s) /\ s[i] \in Digits
    THEN ReadDigits(s, i + 1, acc * 10 + DigitVal(s[i]), n + 1)
    ELSE <<acc, n>>

parseFloat(s) ==
    LET i0 == SkipBlanks(s, 1)
        signed == i0 <= Len(s) /\ s[i0] \in {"-", "+"}
        sign == IF signed /\ s[i0] = "-" THEN -1 ELSE 1
        i1 == IF signed THEN i0 + 1 ELSE i0
        ip == ReadDigits(s, i1, 0, 0)
        i2 == i1 + ip[2]
        dot == i2 <= Len(s) /\ s[i2] = "."
        fp == IF dot THEN ReadDigits(s, i2 + 1, ip[1], 0) ELSE <<ip[1], 0>>
    IN  IF ip[2] + fp[2] = 0 THEN NaN ELSE Dec(sign * fp[1], fp[2])

\* value.replace(/[^\d.-]/g, ""): keeps digits, '.' and '-'
StripNonNumeric(s) == SelectSeq(s, LAMBDA c : c \in Digits \cup {".", "-"})

\* parseMetric without the Number.isFinite test
parseMetric_Unchecked(value) ==
    IF Len(value) = 0 THEN Num(0) ELSE parseFloat(StripNonNumeric(value))

\* parseMetric on a string
parseMetric(value) ==
    IF Len(value) = 0 THEN Num(0)
    ELSE IF NumberIsFinite(parseFloat(StripNonNumeric(value)))
         THEN parseFloat(StripNonNumeric(value))
         ELSE Num(0)

(***************************************************************************)
(* normalizeSensors                                                        *)
(***************************************************************************)
\* parseOptionalNumber falling back to 0
parseOptionalNumber_ZeroDefault(value) ==
    IF TypeOf(value) = "number" /\ NumberIsFinite(value) THEN value
    ELSE IF TypeOf(value) = "string" /\ NumberIsFinite(parseFloat(value.s))
         THEN parseFloat(value.s)
         ELSE Num(0)

parseOptionalNumber(value) ==
    IF TypeOf(value) = "number" /\ NumberIsFinite(value) THEN value
    ELSE IF TypeOf(value) = "string" /\ NumberIsFinite(parseFloat(value.s))
         THEN parseFloat(value.s)
         ELSE Undefined

\* HasMandatoryFields without the timestamp test
HasMandatoryFields_NoTimestamp(value) ==
    /\ TypeOf(Get(value, "flow")) = "string"
    /\ TypeOf(Get(value, "total")) = "string"

\* the admission test of normalizeSensors and normalizeHistory
HasMandatoryFields(value) ==
    /\ TypeOf(Get(value, "flow")) = "string"
    /\ TypeOf(Get(value, "total")) = "string"
    /\ TypeOf(Get(value, "timestamp")) = "number"

\* SensorRecord storing the parsed flow instead of the flow string
SensorRecord_NumericFlow(value) ==
    Obj(<< Entry("flow", parseMetric(Get(value, "flow").s)),
           Entry("total", Get(value, "total")),
           Entry("timestamp", Get(value, "timestamp")),
           Entry("r_value", parseOptionalNumber(Get(value, "r_value"))),
           Entry("threshold", parseOptionalNumber(Get(value, "threshold"))) >>)

SensorRecord(value) ==
    Obj(<< Entry("flow", Get(value, "flow")),
           Entry("total", Get(value, "total")),
           Entry("timestamp", Get(value, "timestamp")),
           Entry("r_value", parseOptionalNumber(Get(value, "r_value"))),
           Entry("threshold", parseOptionalNumber(Get(value, "threshold"))) >>)

\* the reduce callback of normalizeSensors
ReduceStep(acc, e) ==
    IF HasMandatoryFields(e.val) THEN Put(acc, e.key, SensorRecord(e.val)) ELSE acc

RECURSIVE ReduceEntries(_, _, _)
ReduceEntries(es, i, acc) ==
    IF i > Len(es) THEN acc ELSE ReduceEntries(es, i + 1, ReduceStep(acc, es[i]))

normalizeSensors(data) ==
    IF ~Truthy(data) \/ TypeOf(data) # "object" THEN Obj(<<>>)
    ELSE Obj(ReduceEntries(data.es, 1, <<>>))

(***************************************************************************)
(* summary.totalVolume                                                     *)
(***************************************************************************)
\* a + b on finite numbers
NumAdd(a, b) ==
    LET e == IF a.e > b.e THEN a.e ELSE b.e
    IN  Dec(a.m * Pow10(e - a.e) + b.m * Pow10(e - b.e), e)

DigitChar(d) ==
    CASE d = 0 -> "0" [] d = 1 -> "1" [] d = 2 -> "2" [] d = 3 -> "3" [] d = 4 -> "4"
      [] d = 5 -> "5" [] d = 6 -> "6" [] d = 7 -> "7" [] d = 8 -> "8" [] d = 9 -> "9"

\* the decimal digits of a natural number
RECURSIVE DigitsOf(_)
DigitsOf(n) == IF n < 10 THEN <<DigitChar(n)>> ELSE Append(DigitsOf(n \div 10), DigitChar(n % 10))

\* x rounded to thousandths, half away from zero
Thousandths(x) ==
    LET a == IF x.m < 0 THEN -x.m ELSE x.m
        t == IF x.e <= 3 THEN a * Pow10(3 - x.e)
             ELSE (a + 5 * Pow10(x.e - 4)) \div Pow10(x.e - 3)
    IN  IF x.m < 0 THEN -t ELSE t

\* x.toFixed(3) for a finite number
toFixed3(x) ==
    LET t == Thousandths(x)
        a == IF t < 0 THEN -t ELSE t
        f == a % 1000
    IN  (IF t < 0 THEN <<"-">> ELSE <<>>) \o DigitsOf(a \div 1000)
        \o <<".", DigitChar(f \div 100), DigitChar((f \div 10) % 10), DigitChar(f % 10)>>

\* sensorEntries.reduce((acc, [, sensor]) => acc + parseMetric(sensor.total), 0);
\* the sum does not depend on the key order sensorEntries is sorted into
RECURSIVE SumTotals(_, _, _)
SumTotals(es, i, acc) ==
    IF i > Len(es) THEN acc
    ELSE SumTotals(es, i + 1, NumAdd(acc, parseMetric(Get(es[i].val, "total").s)))

\* summary.totalVolume for a normalized sensor set
TotalVolume(sensorSet) ==
    IF Len(sensorSet.es) = 0 THEN Str(<<"0", ".", "0", "0", "0", " ", "L">>)
    ELSE Str(toFixed3(SumTotals(sensorSet.es, 1, Num(0))) \o <<" ", "L">>)

(***************************************************************************)
(* normalizeHistory                                                        *)
(***************************************************************************)
HistoryEntry(sensorId, entry) ==
    [sensorId |-> sensorId, flow |-> Get(entry, "flow"), total |-> Get(entry, "total"),
     timestamp |-> Get(entry, "timestamp")]

\* PushEntry skipping an entry whose sensor and timestamp are already there
PushEntry_Unique(entries, e) ==
    IF \E n \in 1..Len(entries) :
           entries[n].sensorId = e.sensorId /\ entries[n].timestamp = e.timestamp
    THEN entries
    ELSE Append(entries, e)

\* entries.push(e)
PushEntry(entries, e) == Append(entries, e)

\* the inner forEach: the admitted leaf records of one sensor, in entry order
RECURSIVE LeafEntries(_, _, _, _)
LeafEntries(sensorId, es, i, entries) ==
    IF i > Len(es) THEN entries
    ELSE LeafEntries(sensorId, es, i + 1,
                     IF HasMandatoryFields(es[i].val)
                     THEN PushEntry(entries, HistoryEntry(sensorId, es[i].val))
                     ELSE entries)

\* the outer forEach over the sensors
RECURSIVE FlattenHistory(_, _, _)
FlattenHistory(es, i, entries) ==
    IF i > Len(es) THEN entries
    ELSE FlattenHistory(es, i + 1,
                        IF Truthy(es[i].val) /\ TypeOf(es[i].val) = "object"
                        THEN LeafEntries(es[i].key, es[i].val.es, 1, entries)
                        ELSE entries)

\* InsertByTimestampDesc of an unstable sort: an entry goes before its equals
InsertByTimestampDesc_Unstable(sorted, e) ==
    LET before == {i \in 1..Len(sorted) : NumGt(sorted[i].timestamp, e.timestamp)}
        n == IF before = {} THEN 0
             ELSE CHOOSE i \in before : \A j \in before : j <= i
    IN  SubSeq(sorted, 1, n) \o <<e>> \o SubSeq(sorted, n + 1, Len(sorted))

\* Array.prototype.sort with (a, b) => b.timestamp - a.timestamp: stable, descending
InsertByTimestampDesc(sorted, e) ==
    LET before == {i \in 1..Len(sorted) : ~NumGt(e.timestamp, sorted[i].timestamp)}
        n == IF before = {} THEN 0
             ELSE CHOOSE i \in before : \A j \in before : j <= i
    IN  SubSeq(sorted, 1, n) \o <<e>> \o SubSeq(sorted, n + 1, Len(sorted))

RECURSIVE SortByTimestampDesc(_, _, _)
SortByTimestampDesc(entries, i, sorted) ==
    IF i > Len(entries) THEN sorted
    ELSE SortByTimestampDesc(entries, i + 1, InsertByTimestampDesc(sorted, entries[i]))

normalizeHistory(data) ==
    IF ~Truthy(data) \/ TypeOf(data) # "object" THEN <<>>
    ELSE SortByTimestampDesc(FlattenHistory(data.es, 1, <<>>), 1, <<>>)

(***************************************************************************)
(* isLeakageDetected                                                       *)
(***************************************************************************)
\* isLeakageDetected comparing with >= instead of >
isLeakageDetected_NonStrict(globalRValue, globalThreshold) ==
    IF globalRValue.t = "undefined" \/ globalThreshold.t = "undefined" THEN FALSE
    ELSE IF ~NumberIsFinite(globalRValue) \/ ~NumberIsFinite(globalThreshold) THEN FALSE
    ELSE NumGeq(globalRValue, globalThreshold)

isLeakageDetected(globalRValue, globalThreshold) ==
    IF globalRValue.t = "undefined" \/ globalThreshold.t = "undefined" THEN FALSE
    ELSE IF ~NumberIsFinite(globalRValue) \/ ~NumberIsFinite(globalThreshold) THEN FALSE
    ELSE NumGt(globalRValue, globalThreshold)

(***************************************************************************)
(* State of HomePage                                                       *)
(***************************************************************************)
VARIABLES
    subs,           \* registrations made by the sensor-set effect, in creation order
    unsubscribe,    \* the effect's `unsubscribe` variable: 0 (null) or an index of subs
    sensors,        \* useState sensors
    error,          \* useState error
    loading,        \* useState loading
    sensorMounted,  \* the sensor-set effect has not been cleaned up yet
    adoptedBy,      \* history: path indexes that have delivered a non-empty payload
    last,           \* history: the most recent step of the sensor-set effect
    seenKeys,       \* history: every key the sensor set has held so far
    chartSubs,      \* per sensor id: registrations made by the chart effect (its `unsubscribes`)
    chartData,      \* useState chartData: per sensor id the rolling series
    chartMounted,   \* the chart effect has not been cleaned up yet
    pushed,         \* history: per sensor id every point handed to setChartData, in order
    failure,        \* history: what became of the exceptions raised in chart callbacks
    activeSection,  \* useState activeSection
    historySubs,    \* registrations made by the runs of the history effect
    history,        \* useState history
    historyLoading, \* useState historyLoading
    historyFilter,  \* useState historyFilter
    now,            \* the wall clock, Date.now() / 1000
    currentTime,    \* useState currentTime, in seconds
    filteredHistory,\* the value held by the filteredHistory memo
    systemSubs,     \* per system path: the registration made by the global scalar effect
    globalRValue,   \* useState globalRValue
    globalThreshold,\* useState globalThreshold
    systemError,    \* useState systemError
    leakageStatus,  \* the hasLeakage field of the leakageStatus memo
    systemMounted,  \* the global scalar effect has not been cleaned up yet
    accepted,       \* history: per system path the latest finite value it delivered
    lastSystem,     \* history: the most recent step of the global scalar effect
    lastOutcome,    \* history: per system path how its latest notification ended
    pureIn,         \* a call of a pure function: its name and arguments
    pureOut         \* the value that call returned

sensorVars == <<subs, unsubscribe, sensors, error, loading, sensorMounted, adoptedBy, last,
                seenKeys>>

chartVars == <<chartSubs, chartData, chartMounted, pushed, failure>>

historyVars == <<activeSection, historySubs, history, historyLoading, historyFilter,
                 now, currentTime, filteredHistory>>

pureVars == <<pureIn, pureOut>>

systemVars == <<systemSubs, globalRValue, globalThreshold, systemError, leakageStatus,
                systemMounted, accepted, lastSystem, lastOutcome>>

vars == <<subs, unsubscribe, sensors, error, loading, sensorMounted, adoptedBy, last, seenKeys,
          chartSubs, chartData, chartMounted, pushed, failure,
          activeSection, historySubs, history, historyLoading, historyFilter,
          now, currentTime, filteredHistory, pureIn, pureOut,
          systemSubs, globalRValue, globalThreshold, systemError, leakageStatus,
          systemMounted, accepted, lastSystem, lastOutcome>>

NoError == "null"

\* characters of "2.5 L/min", "10 L" and "0.5"
FlowText == <<"2", ".", "5", " ", "L", "/", "m", "i", "n">>

TotalText == <<"1", "0", " ", "L">>

RatioText == <<"0", ".", "5">>

\* payloads the database pushes on a sensor-set path
PayloadOne ==
    Obj(<< Entry("sensor1", Obj(<< Entry("flow", Str(FlowText)),
                                   Entry("total", Str(TotalText)),
                                   Entry("timestamp", Num(100)) >>)) >>)

PayloadTwo ==
    Obj(<< Entry("sensor2", Obj(<< Entry("flow", Str(FlowText)),
                                   Entry("timestamp", Num(160)) >>)),
           Entry("sensor1", Obj(<< Entry("flow", Str(FlowText)),
                                   Entry("total", Str(TotalText)),
                                   Entry("timestamp", Num(160)),
                                   Entry("r_value", Str(RatioText)) >>)) >>)

PayloadThree ==
    Obj(<< Entry("sensor1", Obj(<< Entry("flow", Str(FlowText)),
                                   Entry("total", Str(TotalText)),
                                   Entry("timestamp", Num(220)) >>)),
           Entry("sensor2", Obj(<< Entry("flow", Str(FlowText)),
                                   Entry("total", Str(TotalText)),
                                   Entry("timestamp", Num(220)) >>)) >>)

SensorPayloads == {Null, PayloadOne, PayloadTwo, PayloadThree, Num(7)}

\* bound: registrations the sensor-set effect may create in one run
MaxSubs == 3

(***************************************************************************)
(* Sensor-set effect: subscribeToPath over tryPaths                        *)
(***************************************************************************)
tryPaths == <<"sensorsCurrent", "/">>

Registration(pathIndex) == [path |-> pathIndex, active |-> TRUE]

Release(regs, i) ==
    [j \in 1..Len(regs) |-> IF j = i THEN [regs[j] EXCEPT !.active = FALSE] ELSE regs[j]]

\* subscribeToPath(pathIndex) applied to the effect state st
subscribeToPath(pathIndex, st) ==
    IF pathIndex >= Len(tryPaths)
    THEN [st EXCEPT !.error = "Tidak dapat terhubung ke Firebase. Periksa konfigurasi.",
                    !.loading = FALSE]
    ELSE [st EXCEPT !.subs = Append(st.subs, Registration(pathIndex)),
                    !.unsubscribe = Len(st.subs) + 1]

EffectState ==
    [subs |-> subs, unsubscribe |-> unsubscribe, sensors |-> sensors,
     error |-> error, loading |-> loading]

SetEffectState(st) ==
    /\ subs' = st.subs
    /\ unsubscribe' = st.unsubscribe
    /\ sensors' = st.sensors
    /\ error' = st.error
    /\ loading' = st.loading

\* OnSensorValue with the fallback test off by one (<= instead of <)
OnSensorValue_OffByOne(pathIndex, data, st) ==
    LET body ==
            IF Truthy(data)
            THEN [st EXCEPT !.sensors = normalizeSensors(data), !.error = NoError]
            ELSE IF pathIndex <= Len(tryPaths) - 1
                 THEN subscribeToPath(pathIndex + 1, st)
                 ELSE [st EXCEPT !.sensors = Obj(<<>>)]
    IN  [body EXCEPT !.loading = FALSE]

\* OnSensorValue merging the normalized payload into the previous sensor set
OnSensorValue_Merges(pathIndex, data, st) ==
    LET normalized == normalizeSensors(data)
        kept == SelectSeq(st.sensors.es, LAMBDA en : en.key \notin Keys(normalized))
        body ==
            IF Truthy(data)
            THEN [st EXCEPT !.sensors = Obj(kept \o normalized.es), !.error = NoError]
            ELSE IF pathIndex < Len(tryPaths) - 1
                 THEN subscribeToPath(pathIndex + 1, st)
                 ELSE [st EXCEPT !.sensors = Obj(<<>>)]
    IN  [body EXCEPT !.loading = FALSE]

\* the value callback of the registration on tryPaths[pathIndex], on payload data
OnSensorValue(pathIndex, data, st) ==
    LET body ==
            IF Truthy(data)
            THEN [st EXCEPT !.sensors = normalizeSensors(data), !.error = NoError]
            ELSE IF pathIndex < Len(tryPaths) - 1
                 THEN subscribeToPath(pathIndex + 1, st)
                 ELSE [st EXCEPT !.sensors = Obj(<<>>)]
    IN  [body EXCEPT !.loading = FALSE]

\* the error callback of the registration on tryPaths[pathIndex]; err is only logged
OnSensorError(pathIndex, err, st) ==
    IF pathIndex < Len(tryPaths) - 1
    THEN subscribeToPath(pathIndex + 1, st)
    ELSE [st EXCEPT !.error = "Koneksi Firebase bermasalah.", !.loading = FALSE]

\* the `code` of the error handed to a cancel callback
ErrorCodes == {"PERMISSION_DENIED", "NETWORK_ERROR"}

\* the Error handed to a cancel callback, with its `code`
ErrorObject(code) == [t |-> "error", code |-> code]

Event(stream, kind, pathIndex, data) ==
    [stream |-> stream, kind |-> kind, path |-> pathIndex, data |-> data]

SensorValue(i, data) ==
    /\ i \in 1..Len(subs)
    /\ subs[i].active
    /\ Len(OnSensorValue(subs[i].path, data, EffectState).subs) <= MaxSubs
    /\ SetEffectState(OnSensorValue(subs[i].path, data, EffectState))
    /\ adoptedBy' = IF Truthy(data) THEN adoptedBy \cup {subs[i].path} ELSE adoptedBy
    /\ last' = Event("sensors", "value", subs[i].path, data)
    /\ seenKeys' = seenKeys \cup Keys(sensors')
    /\ UNCHANGED sensorMounted
    /\ UNCHANGED <<chartVars, historyVars, pureVars, systemVars>>

SensorError(i, code) ==
    /\ i \in 1..Len(subs)
    /\ subs[i].active
    /\ Len(OnSensorError(subs[i].path, ErrorObject(code), EffectState).subs) <= MaxSubs
    /\ SetEffectState(LET st == OnSensorError(subs[i].path, ErrorObject(code), EffectState)
                      IN  [st EXCEPT !.subs = Release(st.subs, i)])
    /\ last' = Event("sensors", "error", subs[i].path, ErrorObject(code))
    /\ UNCHANGED <<sensorMounted, adoptedBy, seenKeys>>
    /\ UNCHANGED <<chartVars, historyVars, pureVars, systemVars>>

\* the cleanup returned by the sensor-set effect
SensorCleanup ==
    /\ sensorMounted
    /\ sensorMounted' = FALSE
    /\ subs' = IF unsubscribe # 0 THEN Release(subs, unsubscribe) ELSE subs
    /\ last' = Event("sensors", "cleanup", 0, Null)
    /\ UNCHANGED <<unsubscribe, sensors, error, loading, adoptedBy, seenKeys>>
    /\ UNCHANGED <<chartVars, historyVars, pureVars, systemVars>>

(***************************************************************************)
(* Chart effect: one fallback subscription chain per sensor id, feeding    *)
(* the rolling window of chartData                                         *)
(***************************************************************************)
\* the window is 100 points in the source; the model keeps it small so that
\* series longer than the window are reached
CHART_WINDOW_SIZE == 3

\* bound: registrations the chart effect may create in one run, over all sensor ids
MaxChartSubs == 4

\* bound on the points pushed in one run, over all sensor ids
MaxPush == CHART_WINDOW_SIZE + 1

\* the total length of the sequences of f over the keys ks
RECURSIVE TotalLen(_, _)
TotalLen(f, ks) ==
    IF ks = {} THEN 0
    ELSE LET k == CHOOSE x \in ks : TRUE
         IN  Len(f[k]) + TotalLen(f, ks \ {k})

\* the source listens to sensor1..sensor4; the model follows two of them
sensorIds == {"sensor1", "sensor2"}

SlowFlowText == <<"1", " ", "L", "/", "m", "i", "n">>

\* payloads the database pushes on a per-sensor chart path
ChartSampleA ==
    Obj(<< Entry("flow", Str(FlowText)), Entry("total", Str(TotalText)),
           Entry("timestamp", Num(100)) >>)

ChartSampleB ==
    Obj(<< Entry("flow", Str(SlowFlowText)), Entry("total", Str(TotalText)),
           Entry("timestamp", Num(90)) >>)

ChartNumericFlow == Obj(<< Entry("flow", Num(3)), Entry("timestamp", Num(100)) >>)

ChartNoTimestamp == Obj(<< Entry("flow", Str(FlowText)) >>)

ChartPayloads == {Null, ChartSampleA, ChartSampleB, ChartNumericFlow, ChartNoTimestamp}

\* toLocaleTimeString(hour, minute, second) of timestamp * 1000: the second of the day
TimeLabel(timestamp) ==
    IF NumberIsFinite(timestamp)
    THEN (timestamp.m \div Pow10(timestamp.e)) % 86400
    ELSE -1

ChartDataPoint(data) ==
    [timestamp |-> Get(data, "timestamp"),
     flowrate |-> parseMetric(Get(data, "flow").s),
     timeLabel |-> TimeLabel(Get(data, "timestamp"))]

\* RollingUpdate without the eviction
RollingUpdate_NoEviction(currentData, newDataPoint) == Append(currentData, newDataPoint)

\* RollingUpdate evicting with pop() instead of shift()
RollingUpdate_DropsNewest(currentData, newDataPoint) ==
    LET updated == Append(currentData, newDataPoint)
    IN  IF Len(updated) > CHART_WINDOW_SIZE
        THEN SubSeq(updated, 1, Len(updated) - 1)
        ELSE updated

\* RollingUpdate keeping the series in ascending timestamp order
RollingUpdate_Sorted(currentData, newDataPoint) ==
    LET before == SelectSeq(currentData,
                            LAMBDA p : ~NumGt(p.timestamp, newDataPoint.timestamp))
        after == SelectSeq(currentData,
                           LAMBDA p : NumGt(p.timestamp, newDataPoint.timestamp))
        updated == before \o <<newDataPoint>> \o after
    IN  IF Len(updated) > CHART_WINDOW_SIZE THEN Tail(updated) ELSE updated

\* the setChartData updater: append, then drop the oldest point beyond the window
RollingUpdate(currentData, newDataPoint) ==
    LET updated == Append(currentData, newDataPoint)
    IN  IF Len(updated) > CHART_WINDOW_SIZE THEN Tail(updated) ELSE updated

\* the chart callback's test `data && data.flow && typeof data.timestamp === "number"`
ChartValid(data) ==
    /\ Truthy(data)
    /\ Truthy(Get(data, "flow"))
    /\ TypeOf(Get(data, "timestamp")) = "number"

\* parseMetric(data.flow) calls value.replace, which only strings have
ParseMetricThrows(data) == TypeOf(Get(data, "flow")) # "string"

\* ChartCatch without the try block: the exception leaves the callback
ChartCatch_Propagates(outcome) == "propagated"

\* try { ... } catch (err) { console.error(...) } around the body of the chart
\* value callback: an exception raised in the body is logged and goes no further
ChartCatch(outcome) == IF outcome = "propagated" THEN outcome ELSE "contained"

\* the chart effect's subscribeToPath(pathIndex) for one sensor id, on its registrations
chartSubscribeToPath(pathIndex, regs) ==
    IF pathIndex >= Len(tryPaths) THEN regs ELSE Append(regs, Registration(pathIndex))

\* value callback of registration i of sensor id k
ChartValue(k, i, data) ==
    /\ i \in 1..Len(chartSubs[k])
    /\ chartSubs[k][i].active
    /\ IF ChartValid(data)
       THEN IF ParseMetricThrows(data)
            THEN /\ failure' = ChartCatch(failure)
                 /\ UNCHANGED <<chartSubs, chartData, pushed>>
            ELSE /\ TotalLen(pushed, sensorIds) < MaxPush
                 /\ chartData' = [chartData EXCEPT
                                     ![k] = RollingUpdate(@, ChartDataPoint(data))]
                 /\ pushed' = [pushed EXCEPT ![k] = Append(@, ChartDataPoint(data))]
                 /\ UNCHANGED <<chartSubs, failure>>
       ELSE IF chartSubs[k][i].path < Len(tryPaths) - 1
            THEN /\ TotalLen(chartSubs, sensorIds) < MaxChartSubs
                 /\ chartSubs' = [chartSubs EXCEPT
                                     ![k] = chartSubscribeToPath(chartSubs[k][i].path + 1, @)]
                 /\ UNCHANGED <<chartData, pushed, failure>>
            ELSE UNCHANGED <<chartSubs, chartData, pushed, failure>>
    /\ UNCHANGED chartMounted
    /\ UNCHANGED <<sensorVars, historyVars, pureVars, systemVars>>

\* error callback of registration i of sensor id k
ChartError(k, i) ==
    /\ i \in 1..Len(chartSubs[k])
    /\ chartSubs[k][i].active
    /\ IF chartSubs[k][i].path < Len(tryPaths) - 1
       THEN /\ TotalLen(chartSubs, sensorIds) < MaxChartSubs
            /\ chartSubs' = [chartSubs EXCEPT
                                ![k] = chartSubscribeToPath(chartSubs[k][i].path + 1,
                                                            Release(@, i))]
       ELSE chartSubs' = [chartSubs EXCEPT ![k] = Release(@, i)]
    /\ UNCHANGED <<chartData, chartMounted, pushed, failure>>
    /\ UNCHANGED <<sensorVars, historyVars, pureVars, systemVars>>

\* ChartCleanup releasing only the registrations made when the effect ran
ChartCleanup_PrimaryOnly ==
    /\ chartMounted
    /\ chartMounted' = FALSE
    /\ chartSubs' = [k \in sensorIds |-> Release(chartSubs[k], 1)]
    /\ UNCHANGED <<chartData, pushed, failure>>
    /\ UNCHANGED <<sensorVars, historyVars, pureVars, systemVars>>

\* the cleanup returned by the chart effect: unsubscribes.forEach(unsub => unsub())
ChartCleanup ==
    /\ chartMounted
    /\ chartMounted' = FALSE
    /\ chartSubs' = [k \in sensorIds |->
                       [i \in 1..Len(chartSubs[k]) |->
                           [chartSubs[k][i] EXCEPT !.active = FALSE]]]
    /\ UNCHANGED <<chartData, pushed, failure>>
    /\ UNCHANGED <<sensorVars, historyVars, pureVars, systemVars>>

InitChart ==
    /\ chartSubs = [k \in sensorIds |-> <<Registration(0)>>]
    /\ chartData = [k \in sensorIds |-> <<>>]
    /\ chartMounted = TRUE
    /\ pushed = [k \in sensorIds |-> <<>>]
    /\ failure = "none"

(***************************************************************************)
(* History effect, clock timer and the filteredHistory memo                *)
(***************************************************************************)
NavKeys == {"home", "realtime", "history", "settings"}

HistoryFilters == {"today", "7d", "all"}

\* the wall clock when the page is mounted, in seconds
StartTime == 1000000

\* setInterval period of the clock refresh, in seconds
TickSeconds == 30

\* bound: clock refreshes in one run
MaxTicks == 3

DaySeconds == 24 * 60 * 60

WeekSeconds == 7 * 24 * 60 * 60

HistoryRecord(ts) ==
    Obj(<< Entry("flow", Str(FlowText)), Entry("total", Str(TotalText)),
           Entry("timestamp", Num(ts)) >>)

\* payloads the database pushes on sensorsHistory
HistoryPayloadA ==
    Obj(<< Entry("sensor1", Obj(<< Entry("-a1", HistoryRecord(StartTime - 3600)),
                                   Entry("-a2", HistoryRecord(StartTime - 2 * DaySeconds)),
                                   Entry("-a3", HistoryRecord(StartTime - DaySeconds + 45)) >>)),
           Entry("sensor2", Obj(<< Entry("-b1", HistoryRecord(StartTime - 10 * DaySeconds)),
                                   Entry("-b2", Obj(<< Entry("flow", Str(FlowText)) >>)) >>)) >>)

HistoryPayloadB ==
    Obj(<< Entry("sensor2", Obj(<< Entry("-c1", HistoryRecord(StartTime - WeekSeconds + 45)),
                                   Entry("-c2", HistoryRecord(StartTime - 3600)),
                                   Entry("-c3", HistoryRecord(StartTime - WeekSeconds + 30)) >>)),
           Entry("sensor1", Obj(<< Entry("-d1", HistoryRecord(StartTime - 3600)) >>)),
           Entry("sensor3", Num(5)) >>)

HistoryPayloads == {Null, HistoryPayloadA, HistoryPayloadB}

\* filterMap[historyFilter]; the window of "all" is Infinity
FilterWindow(filter) ==
    CASE filter = "today" -> Num(DaySeconds)
      [] filter = "7d" -> Num(WeekSeconds)
      [] filter = "all" -> PosInfinity

\* now - filterMap[historyFilter], for a finite integer clock
Cutoff(filter, clock) ==
    IF FilterWindow(filter).k = "inf" THEN NegInfinity
    ELSE Num(clock - FilterWindow(filter).m)

\* ComputeFilteredHistory comparing with > instead of >=
ComputeFilteredHistory_Strict(entries, filter, clock) ==
    IF Len(entries) = 0 THEN <<>>
    ELSE SelectSeq(entries, LAMBDA entry : NumGt(entry.timestamp, Cutoff(filter, clock)))

\* the body of the filteredHistory memo, evaluated at wall-clock time clock
ComputeFilteredHistory(entries, filter, clock) ==
    IF Len(entries) = 0 THEN <<>>
    ELSE SelectSeq(entries, LAMBDA entry : NumGeq(entry.timestamp, Cutoff(filter, clock)))

ActiveRegs(regs) == {i \in 1..Len(regs) : regs[i].active}

\* bound: runs of the history effect that subscribe
MaxHistorySubs == 2

\* HistoryCleanup that forgets to unsubscribe
HistoryCleanup_Forgets(section, regs) == regs

\* the cleanup of the previous run of the history effect: only a run that
\* subscribed returned one, and it releases that run's own registration
HistoryCleanup(section, regs) ==
    IF section = "history" THEN Release(regs, Len(regs)) ELSE regs

\* setActiveSection(section): the history effect is cleaned up and run again
SetActiveSection(section) ==
    /\ section # activeSection
    /\ activeSection' = section
    /\ IF section = "history"
       THEN /\ Len(historySubs) < MaxHistorySubs
            /\ historyLoading' = TRUE
            /\ historySubs' = Append(HistoryCleanup(activeSection, historySubs),
                                     Registration(0))
       ELSE /\ historySubs' = HistoryCleanup(activeSection, historySubs)
            /\ UNCHANGED historyLoading
    /\ UNCHANGED <<history, historyFilter, now, currentTime, filteredHistory>>
    /\ UNCHANGED <<sensorVars, chartVars, pureVars, systemVars>>

\* value callback of the history registration; the memo depends on history
HistoryValue(i, data) ==
    /\ i \in 1..Len(historySubs)
    /\ historySubs[i].active
    /\ history' = normalizeHistory(data)
    /\ historyLoading' = FALSE
    /\ filteredHistory' = ComputeFilteredHistory(history', historyFilter, now)
    /\ UNCHANGED <<activeSection, historySubs, historyFilter, now, currentTime>>
    /\ UNCHANGED <<sensorVars, chartVars, pureVars, systemVars>>

\* error callback of the history registration
HistoryError(i) ==
    /\ i \in 1..Len(historySubs)
    /\ historySubs[i].active
    /\ historyLoading' = FALSE
    /\ historySubs' = Release(historySubs, i)
    /\ UNCHANGED <<activeSection, history, historyFilter, now, currentTime, filteredHistory>>
    /\ UNCHANGED <<sensorVars, chartVars, pureVars, systemVars>>

\* setHistoryFilter(filter); the memo depends on historyFilter
SetHistoryFilter(filter) ==
    /\ filter # historyFilter
    /\ historyFilter' = filter
    /\ filteredHistory' = ComputeFilteredHistory(history, filter, now)
    /\ UNCHANGED <<activeSection, historySubs, history, historyLoading, now, currentTime>>
    /\ UNCHANGED <<sensorVars, chartVars, pureVars, systemVars>>

\* the interval timer: setCurrentTime(new Date()); the memo does not depend on it
ClockTick ==
    /\ now < StartTime + MaxTicks * TickSeconds
    /\ now' = now + TickSeconds
    /\ currentTime' = now'
    /\ UNCHANGED <<activeSection, historySubs, history, historyLoading, historyFilter,
                   filteredHistory>>
    /\ UNCHANGED <<sensorVars, chartVars, pureVars, systemVars>>

InitHistory ==
    /\ activeSection = "home"
    /\ historySubs = <<>>
    /\ history = <<>>
    /\ historyLoading = FALSE
    /\ historyFilter = "all"
    /\ now = StartTime
    /\ currentTime = StartTime
    /\ filteredHistory = <<>>

(***************************************************************************)
(* Global scalar effect: system/r_value and system/threshold, and the      *)
(* leakageStatus memo                                                      *)
(***************************************************************************)
systemPaths == {"r_value", "threshold"}

\* what snapshot.val() may be on a system path
SystemValues ==
    {Null, Dec(5, 1), Num(1), Num(2), Str(RatioText), Str(<<"2">>), Str(<<"a", "b", "c">>)}

\* typeof value === "number" ? value : parseFloat(value)
numValue(value) == IF TypeOf(value) = "number" THEN value ELSE parseFloat(value.s)

SystemState ==
    [globalRValue |-> globalRValue, globalThreshold |-> globalThreshold,
     systemError |-> systemError]

\* setGlobalRValue / setGlobalThreshold
SetGlobal(path, v, st) ==
    IF path = "r_value" THEN [st EXCEPT !.globalRValue = v]
                        ELSE [st EXCEPT !.globalThreshold = v]

NotAvailable(path) ==
    IF path = "r_value" THEN "System r_value not available"
                        ELSE "System threshold not available"

PermissionDenied(path) ==
    IF path = "r_value" THEN "Permission denied: /system/r_value"
                        ELSE "Permission denied: /system/threshold"

FailedToConnect(path) ==
    IF path = "r_value" THEN "Failed to connect to /system/r_value"
                        ELSE "Failed to connect to /system/threshold"

\* OnSystemValue with one shared record: a value on one path resets the other
OnSystemValue_SharedRecord(path, value, st) ==
    IF value.t \notin {"null", "undefined"}
    THEN IF NumberIsFinite(numValue(value))
         THEN [[globalRValue |-> Undefined, globalThreshold |-> Undefined,
                systemError |-> NoError]
                  EXCEPT ![IF path = "r_value" THEN "globalRValue" ELSE "globalThreshold"]
                             = numValue(value)]
         ELSE st
    ELSE [st EXCEPT !.systemError = NotAvailable(path)]

\* OnSystemValue storing 0 for a value that is not a finite number
OnSystemValue_ZeroDefault(path, value, st) ==
    IF value.t \notin {"null", "undefined"}
    THEN IF NumberIsFinite(numValue(value))
         THEN [SetGlobal(path, numValue(value), st) EXCEPT !.systemError = NoError]
         ELSE SetGlobal(path, Num(0), st)
    ELSE [st EXCEPT !.systemError = NotAvailable(path)]

\* the value callback of the registration on system/<path>
OnSystemValue(path, value, st) ==
    IF value.t \notin {"null", "undefined"}
    THEN IF NumberIsFinite(numValue(value))
         THEN [SetGlobal(path, numValue(value), st) EXCEPT !.systemError = NoError]
         ELSE st
    ELSE [st EXCEPT !.systemError = NotAvailable(path)]

\* OnSystemError forgetting the stored value of its path
OnSystemError_Resets(path, code, st) ==
    [SetGlobal(path, Undefined, st)
        EXCEPT !.systemError = IF code = "PERMISSION_DENIED" THEN PermissionDenied(path)
                                                              ELSE FailedToConnect(path)]

\* the error callback of the registration on system/<path>
OnSystemError(path, code, st) ==
    [st EXCEPT !.systemError = IF code = "PERMISSION_DENIED" THEN PermissionDenied(path)
                                                              ELSE FailedToConnect(path)]

\* the state setters of a callback, followed by the render that recomputes leakageStatus
SetSystemState(st) ==
    /\ globalRValue' = st.globalRValue
    /\ globalThreshold' = st.globalThreshold
    /\ systemError' = st.systemError
    /\ leakageStatus' = isLeakageDetected(st.globalRValue, st.globalThreshold)

\* how a value notification ended
ValueOutcome(value) ==
    IF value.t \in {"null", "undefined"} THEN "missing"
    ELSE IF value.t = "number" \/ NumberIsFinite(parseFloat(value.s)) THEN "accepted"
    ELSE "invalid"

SystemValue(path, value) ==
    /\ systemSubs[path].active
    /\ SetSystemState(OnSystemValue(path, value, SystemState))
    /\ accepted' = IF ValueOutcome(value) = "accepted"
                   THEN [accepted EXCEPT ![path] = IF value.t = "number" THEN value
                                                   ELSE parseFloat(value.s)]
                   ELSE accepted
    /\ lastSystem' = Event(path, "value", 0, value)
    /\ lastOutcome' = [lastOutcome EXCEPT ![path] = ValueOutcome(value)]
    /\ UNCHANGED <<systemSubs, systemMounted>>
    /\ UNCHANGED <<sensorVars, chartVars, historyVars, pureVars>>

SystemError(path, code) ==
    /\ systemSubs[path].active
    /\ SetSystemState(OnSystemError(path, code, SystemState))
    /\ systemSubs' = [systemSubs EXCEPT ![path].active = FALSE]
    /\ lastSystem' = Event(path, "error", 0, ErrorObject(code))
    /\ lastOutcome' = [lastOutcome EXCEPT ![path] = "error"]
    /\ UNCHANGED <<systemMounted, accepted>>
    /\ UNCHANGED <<sensorVars, chartVars, historyVars, pureVars>>

\* the cleanup returned by the global scalar effect: unsubscribes.forEach((unsub) => unsub())
SystemCleanup ==
    /\ systemMounted
    /\ systemMounted' = FALSE
    /\ systemSubs' = [path \in systemPaths |-> [systemSubs[path] EXCEPT !.active = FALSE]]
    /\ lastSystem' = Event("system", "cleanup", 0, Null)
    /\ UNCHANGED <<globalRValue, globalThreshold, systemError, leakageStatus,
                   accepted, lastOutcome>>
    /\ UNCHANGED <<sensorVars, chartVars, historyVars, pureVars>>

InitSystem ==
    /\ systemSubs = [path \in systemPaths |-> [active |-> TRUE]]
    /\ globalRValue = Undefined
    /\ globalThreshold = Undefined
    /\ systemError = NoError
    /\ leakageStatus = isLeakageDetected(Undefined, Undefined)
    /\ systemMounted = TRUE
    /\ accepted = [path \in systemPaths |-> Undefined]
    /\ lastSystem = Event("none", "none", 0, Null)
    /\ lastOutcome = [path \in systemPaths |-> "none"]

(***************************************************************************)
(* Calls of the pure functions on enumerated arguments                     *)
(***************************************************************************)
Pending == [t |-> "pending"]

Bool(b) == [t |-> "boolean", b |-> b]

NoCall == [fn |-> "none", args |-> <<>>]

\* an object holding the entries of es whose value is not undefined
ObjOf(es) == Obj(SelectSeq(es, LAMBDA e : e.val.t # "undefined"))

FlowValues == {Undefined, Str(FlowText), Str(<<>>), Num(2)}

VolumeText == <<"2", ".", "5", "0", " ", "L">>

TotalValues == {Undefined, Str(TotalText), Str(VolumeText), Str(<<>>), Num(10), Null}

TimestampValues == {Undefined, Num(100), Num(0), Str(<<"1", "0", "0">>)}

RatioValues == {Undefined, Dec(5, 1), Num(0), NaN, Str(RatioText), Str(<<"a", "b", "c">>)}

ThresholdValues == {Undefined, Num(1), Str(<<"-">>)}

RawRecords ==
    {ObjOf(<< Entry("flow", f), Entry("total", tt), Entry("timestamp", ts),
              Entry("r_value", r), Entry("threshold", th) >>) :
        f \in FlowValues, tt \in TotalValues, ts \in TimestampValues,
        r \in RatioValues, th \in ThresholdValues}

RawLeaves == RawRecords \cup {Undefined, Null, Num(7), Str(FlowText)}

OtherLeaves == {Undefined, Null, Num(7), HistoryRecord(100),
                Obj(<< Entry("flow", Str(FlowText)), Entry("timestamp", Num(100)) >>)}

RawSensorSets ==
    {ObjOf(<< Entry("sensor1", a), Entry("sensor2", b) >>) : a \in RawLeaves, b \in OtherLeaves}
    \cup {ObjOf(<< Entry("sensor2", b), Entry("sensor1", a) >>) :
             a \in {HistoryRecord(100), Null}, b \in OtherLeaves}
    \cup {Undefined, Null, Num(0), Num(7), Str(<<>>), Str(FlowText)}

LeakArguments ==
    {Undefined, NaN, PosInfinity, NegInfinity, Num(0), Num(3), Num(5), Num(-5),
     Dec(5, 1), Dec(35, 1), Dec(299, 2)}

Arr(seq) == [t |-> "array", es |-> seq]

HistoryLeaf(ts, flow) ==
    Obj(<< Entry("flow", Str(flow)), Entry("total", Str(TotalText)),
           Entry("timestamp", Num(ts)) >>)

HistoryLeaves ==
    {HistoryLeaf(100, FlowText), HistoryLeaf(200, FlowText), HistoryLeaf(100, SlowFlowText),
     Obj(<< Entry("flow", Str(FlowText)) >>), Num(7)}

\* what sensorsHistory may hold under one sensor id
SensorHistories ==
    {Obj(<<>>), Null, Num(5)}
    \cup {Obj(<< Entry("-k1", a) >>) : a \in HistoryLeaves}
    \cup {Obj(<< Entry("-k1", a), Entry("-k2", b) >>) : a \in HistoryLeaves, b \in HistoryLeaves}

RawHistories ==
    {Obj(<< Entry("sensor1", x), Entry("sensor2", y) >>) :
        x \in SensorHistories, y \in SensorHistories}
    \cup {Obj(<< Entry("sensor2", y), Entry("sensor1", x) >>) :
             x \in {Obj(<< Entry("-k1", HistoryLeaf(100, FlowText)) >>)}, y \in SensorHistories}
    \cup {Undefined, Null, Num(7), Str(FlowText)}

MetricTexts ==
    {<<>>, <<"a", "b", "c">>, VolumeText, TotalText, FlowText, <<"-">>, <<".">>, <<" ">>,
     <<"-", "3", ".", "5", " ", "L">>, <<"a", "1", "b", "2">>, <<"1", ".", "2", ".", "3">>,
     <<"L", "-", "m", "-">>, <<"0", "0", "7">>}

PureCalls ==
    {[fn |-> "normalizeSensors", args |-> <<data>>] : data \in RawSensorSets}
    \cup {[fn |-> "normalizeSensorsTwice", args |-> <<data>>] : data \in RawSensorSets}
    \cup {[fn |-> "totalVolume", args |-> <<data>>] : data \in RawSensorSets}
    \cup {[fn |-> "parseMetric", args |-> <<Str(text)>>] : text \in MetricTexts}
    \cup {[fn |-> "normalizeHistory", args |-> <<data>>] : data \in RawHistories}
    \cup {[fn |-> "isLeakageDetected", args |-> <<r, th>>] :
             r \in LeakArguments, th \in LeakArguments}

CallNormalizeSensors ==
    /\ pureIn.fn = "normalizeSensors"
    /\ pureOut = Pending
    /\ pureOut' = normalizeSensors(pureIn.args[1])
    /\ UNCHANGED pureIn
    /\ UNCHANGED <<sensorVars, chartVars, historyVars, systemVars>>

\* normalizeSensors applied to its own result
CallNormalizeSensorsTwice ==
    /\ pureIn.fn = "normalizeSensorsTwice"
    /\ pureOut = Pending
    /\ pureOut' = normalizeSensors(normalizeSensors(pureIn.args[1]))
    /\ UNCHANGED pureIn
    /\ UNCHANGED <<sensorVars, chartVars, historyVars, systemVars>>

CallParseMetric ==
    /\ pureIn.fn = "parseMetric"
    /\ pureOut = Pending
    /\ pureOut' = parseMetric(pureIn.args[1].s)
    /\ UNCHANGED pureIn
    /\ UNCHANGED <<sensorVars, chartVars, historyVars, systemVars>>

\* the summary memo over the sensor set a payload normalizes to
CallTotalVolume ==
    /\ pureIn.fn = "totalVolume"
    /\ pureOut = Pending
    /\ pureOut' = TotalVolume(normalizeSensors(pureIn.args[1]))
    /\ UNCHANGED pureIn
    /\ UNCHANGED <<sensorVars, chartVars, historyVars, systemVars>>

CallNormalizeHistory ==
    /\ pureIn.fn = "normalizeHistory"
    /\ pureOut = Pending
    /\ pureOut' = Arr(normalizeHistory(pureIn.args[1]))
    /\ UNCHANGED pureIn
    /\ UNCHANGED <<sensorVars, chartVars, historyVars, systemVars>>

CallIsLeakageDetected ==
    /\ pureIn.fn = "isLeakageDetected"
    /\ pureOut = Pending
    /\ pureOut' = Bool(isLeakageDetected(pureIn.args[1], pureIn.args[2]))
    /\ UNCHANGED pureIn
    /\ UNCHANGED <<sensorVars, chartVars, historyVars, systemVars>>

InitSensors ==
    /\ subs = <<Registration(0)>>
    /\ unsubscribe = 1
    /\ sensors = Obj(<<>>)
    /\ error = NoError
    /\ loading = TRUE
    /\ sensorMounted = TRUE
    /\ adoptedBy = {}
    /\ last = Event("none", "none", 0, Null)
    /\ seenKeys = {}

Init ==
    /\ InitSensors
    /\ InitChart
    /\ InitHistory
    /\ InitSystem
    /\ pureIn = NoCall
    /\ pureOut = Pending

InitPure ==
    /\ InitSensors
    /\ InitChart
    /\ InitHistory
    /\ InitSystem
    /\ pureIn \in PureCalls
    /\ pureOut = Pending

NextSensors ==
    \/ \E i \in 1..MaxSubs, data \in SensorPayloads : SensorValue(i, data)
    \/ \E i \in 1..MaxSubs, code \in ErrorCodes : SensorError(i, code)
    \/ SensorCleanup

SpecSensors == Init /\ [][NextSensors]_vars

NextChart ==
    \/ \E k \in sensorIds, i \in 1..MaxChartSubs, data \in ChartPayloads : ChartValue(k, i, data)
    \/ \E k \in sensorIds, i \in 1..MaxChartSubs : ChartError(k, i)
    \/ ChartCleanup

SpecChart == Init /\ [][NextChart]_vars

NextHistory ==
    \/ \E section \in NavKeys : SetActiveSection(section)
    \/ \E i \in 1..MaxHistorySubs, data \in HistoryPayloads : HistoryValue(i, data)
    \/ \E i \in 1..MaxHistorySubs : HistoryError(i)
    \/ \E filter \in HistoryFilters : SetHistoryFilter(filter)
    \/ ClockTick

SpecHistory == Init /\ [][NextHistory]_vars

NextSystem ==
    \/ \E path \in systemPaths, value \in SystemValues : SystemValue(path, value)
    \/ \E path \in systemPaths, code \in ErrorCodes : SystemError(path, code)
    \/ SystemCleanup

SpecSystem == Init /\ [][NextSystem]_vars

NextPure ==
    \/ CallNormalizeSensors
    \/ CallNormalizeSensorsTwice
    \/ CallParseMetric
    \/ CallTotalVolume
    \/ CallNormalizeHistory
    \/ CallIsLeakageDetected

SpecPure == InitPure /\ [][NextPure]_vars

(***************************************************************************)
(* Properties of the sensor-set effect (SpecSensors)                       *)
(***************************************************************************)
\* C1: in every reachable state at most one registration of the sensor-set
\* effect is active: the previous candidate's registration is released
\* before or when the next candidate is subscribed.
C1_AtMostOneSensorSubscription == Cardinality(ActiveRegs(subs)) <= 1

\* C2: adoption is terminal: once a candidate has delivered a non-empty
\* payload, no value notification creates a registration any more.
C2_AdoptionIsTerminal ==
    [][(adoptedBy # {} /\ last'.kind = "value") => Len(subs') = Len(subs)]_vars

\* C3: a null payload on the primary path makes the effect subscribe to the
\* fallback path; a notification on the fallback path creates no further
\* registration, a non-empty one replaces the sensor set by its
\* normalization and an empty one leaves the sensor set empty.
C3_FallbackScenario ==
    [][/\ (last'.kind = "value" /\ last'.path = 0 /\ ~Truthy(last'.data))
           => /\ Len(subs') = Len(subs) + 1
              /\ subs'[Len(subs')] = Registration(1)
       /\ (last'.kind = "value" /\ last'.path = 1)
           => /\ Len(subs') = Len(subs)
              /\ sensors' = IF Truthy(last'.data) THEN normalizeSensors(last'.data)
                                                  ELSE Obj(<<>>)]_vars

\* C3 witness: the fallback adopted a payload, then delivered an empty one,
\* and still only the two registrations of the scenario exist.
C3_Witness ==
    /\ adoptedBy = {1}
    /\ last = Event("sensors", "value", 1, Null)
    /\ Len(subs) = 2
    /\ sensors = Obj(<<>>)

\* every candidate has been tried, none delivered a usable payload, and the
\* last candidate has answered with an empty payload or an error
SensorsExhausted ==
    /\ adoptedBy = {}
    /\ last.stream = "sensors"
    /\ last.kind \in {"value", "error"}
    /\ last.path = Len(tryPaths) - 1

\* C4: when all candidates are exhausted without a usable payload, the
\* user-visible error is set.
C4_ExhaustionReportsError == SensorsExhausted => error # NoError

\* C5: after the cleanup of the sensor-set effect none of the registrations
\* it created is still active.
C5_CleanupReleasesAll == ~sensorMounted => ActiveRegs(subs) = {}

(***************************************************************************)
(* Properties of the rolling window (SpecChart)                            *)
(***************************************************************************)
\* C6: every series holds at most CHART_WINDOW_SIZE points, and a series
\* changes only by an append at the tail that drops the head exactly when
\* the appended length would exceed the window.
C6_WindowBounded ==
    /\ [](\A k \in sensorIds : Len(chartData[k]) <= CHART_WINDOW_SIZE)
    /\ [][\A k \in sensorIds :
            chartData'[k] # chartData[k] =>
                LET p == chartData'[k][Len(chartData'[k])]
                IN  chartData'[k] =
                        IF Len(chartData[k]) + 1 > CHART_WINDOW_SIZE
                        THEN Append(Tail(chartData[k]), p)
                        ELSE Append(chartData[k], p)]_vars

\* C6 witness: a full series to which more points than the window were pushed
C6_Witness ==
    \E k \in sensorIds :
        Len(chartData[k]) = CHART_WINDOW_SIZE /\ Len(pushed[k]) > CHART_WINDOW_SIZE

\* C7: after more than CHART_WINDOW_SIZE pushes a series is exactly the last
\* CHART_WINDOW_SIZE points pushed, oldest first.
C7_LastPointsRetained ==
    \A k \in sensorIds :
        Len(pushed[k]) > CHART_WINDOW_SIZE =>
            chartData[k] = SubSeq(pushed[k], Len(pushed[k]) - CHART_WINDOW_SIZE + 1,
                                  Len(pushed[k]))

\* C7 witness: an overfull push history whose evicted point differs from the newest
C7_Witness ==
    \E k \in sensorIds :
        /\ Len(pushed[k]) > CHART_WINDOW_SIZE
        /\ pushed[k][1] # pushed[k][Len(pushed[k])]
        /\ pushed[k][1] # pushed[k][2]

(***************************************************************************)
(* Properties of the pure functions (SpecPure)                             *)
(***************************************************************************)
\* a raw record whose three mandatory fields are present and well typed
WellTyped(value) ==
    /\ value.t = "object"
    /\ \E i \in 1..Len(value.es) : value.es[i].key = "flow" /\ value.es[i].val.t = "string"
    /\ \E i \in 1..Len(value.es) : value.es[i].key = "total" /\ value.es[i].val.t = "string"
    /\ \E i \in 1..Len(value.es) :
           value.es[i].key = "timestamp" /\ value.es[i].val.t = "number"

\* C8: normalizeSensors returns an object whose keys are exactly the input
\* keys holding a record with string flow, string total and number
\* timestamp; an absent or non-object input gives the empty object.
C8_AdmitsExactlyWellTyped ==
    (pureIn.fn = "normalizeSensors" /\ pureOut.t # "pending") =>
        LET data == pureIn.args[1]
        IN  /\ pureOut.t = "object"
            /\ Keys(pureOut) =
                   IF data.t = "object"
                   THEN {data.es[i].key : i \in {j \in 1..Len(data.es) : WellTyped(data.es[j].val)}}
                   ELSE {}

\* C8 witness: a set with one admissible and one inadmissible record was normalized
C8_Witness ==
    /\ pureIn.fn = "normalizeSensors"
    /\ pureOut.t = "object"
    /\ Keys(pureIn.args[1]) = {"sensor1", "sensor2"}
    /\ Keys(pureOut) = {"sensor2"}

\* C9: isLeakageDetected is false when either argument is undefined or not
\* finite, and otherwise true exactly when the ratio exceeds the threshold.
C9_LeakIsStrictComparison ==
    (pureIn.fn = "isLeakageDetected" /\ pureOut.t # "pending") =>
        LET r == pureIn.args[1]
            th == pureIn.args[2]
        IN  pureOut = Bool(/\ r.t = "number" /\ r.k = "fin"
                           /\ th.t = "number" /\ th.k = "fin"
                           /\ r.m * Pow10(th.e) > th.m * Pow10(r.e))

\* C9 witness: equal finite arguments were compared and no leak was reported
C9_Witness ==
    /\ pureIn = [fn |-> "isLeakageDetected", args |-> <<Dec(35, 1), Dec(35, 1)>>]
    /\ pureOut = Bool(FALSE)

(***************************************************************************)
(* Properties of the history filter (SpecHistory)                          *)
(***************************************************************************)
\* C10: the filtered history shown is the projection of the retained
\* history under the current selector and the current wall-clock time.
C10_FilteredHistoryIsCurrent ==
    filteredHistory = ComputeFilteredHistory(history, historyFilter, now)

\* an entry is inside the window of the selector at wall-clock time clock
InWindow(entry, filter, clock) ==
    \/ filter = "all"
    \/ /\ filter = "today"
       /\ entry.timestamp.m >= (clock - 86400) * Pow10(entry.timestamp.e)
    \/ /\ filter = "7d"
       /\ entry.timestamp.m >= (clock - 604800) * Pow10(entry.timestamp.e)

\* the entries of a sequence that are inside the window, in their order
RECURSIVE Projection(_, _, _)
Projection(entries, filter, clock) ==
    IF entries = <<>> THEN <<>>
    ELSE IF InWindow(Head(entries), filter, clock)
         THEN <<Head(entries)>> \o Projection(Tail(entries), filter, clock)
         ELSE Projection(Tail(entries), filter, clock)

\* C11: whenever the history or the selector changes, the filtered history
\* becomes exactly the entries whose timestamp is at least now minus the
\* selector's window (all entries for "all"), in their original order.
C11_FilterRetainsWindow ==
    [][(history' # history \/ historyFilter' # historyFilter)
           => filteredHistory' = Projection(history', historyFilter', now')]_vars

\* C11 witness: a 1-hour, a 2-day, a nearly 1-day and a 10-day old entry
\* under "7d": only the 10-day old entry is excluded
C11_Witness ==
    /\ historyFilter = "7d"
    /\ history = normalizeHistory(HistoryPayloadA)
    /\ Len(history) = 4
    /\ Len(filteredHistory) = 3
    /\ \A i \in 1..3 : filteredHistory[i] = history[i]
    /\ history[4].timestamp = Num(StartTime - 10 * DaySeconds)

\* C12: at most one history registration is active, none is active while
\* another section than "history" is shown, and when a run of the effect
\* registers, every earlier registration has been released.
C12_HistorySubscriptionIsLazy ==
    /\ [](Cardinality(ActiveRegs(historySubs)) <= 1)
    /\ [](activeSection # "history" => ActiveRegs(historySubs) = {})
    /\ [][Len(historySubs') > Len(historySubs)
            => \A i \in 1..Len(historySubs) : ~historySubs'[i].active]_vars

\* C12 witness: the history view was left and entered again
C12_Witness ==
    /\ activeSection = "history"
    /\ Len(historySubs) = 2
    /\ ActiveRegs(historySubs) = {2}

(***************************************************************************)
(* Properties across the effects                                           *)
(***************************************************************************)
\* C13: once an effect has been torn down, no callback of its stream
\* changes the state that stream feeds.
C13_NoMutationAfterTeardown ==
    [][/\ ~sensorMounted => UNCHANGED <<sensors, error, loading>>
       /\ ~chartMounted => UNCHANGED chartData
       /\ (activeSection # "history" /\ activeSection' = activeSection)
              => UNCHANGED <<history, historyLoading>>]_vars

\* a step in which the body of a chart value callback raises an exception
ChartCallbackRaises ==
    \E k \in sensorIds, i \in 1..MaxChartSubs, data \in ChartPayloads :
        /\ ChartValid(data)
        /\ TypeOf(Get(data, "flow")) # "string"
        /\ ChartValue(k, i, data)

WithTimestamp(entries, ts) == SelectSeq(entries, LAMBDA e : e.timestamp = ts)

\* C15: the entries normalizeHistory returns are in descending timestamp
\* order, and those with equal timestamps are in the order in which the two
\* nested iterations met them.
C15_HistorySortedStable ==
    (pureIn.fn = "normalizeHistory" /\ pureOut.t # "pending") =>
        LET out == pureOut.es
            met == IF pureIn.args[1].t = "object"
                   THEN FlattenHistory(pureIn.args[1].es, 1, <<>>)
                   ELSE <<>>
        IN  /\ \A i, j \in 1..Len(out) :
                   i < j => out[i].timestamp.m >= out[j].timestamp.m
            /\ Len(out) = Len(met)
            /\ \A n \in 1..Len(met) :
                   WithTimestamp(out, met[n].timestamp) = WithTimestamp(met, met[n].timestamp)

\* C15 witness: a newer entry met last was moved to the front, and two
\* different entries with equal timestamps follow it
C15_Witness ==
    /\ pureIn.fn = "normalizeHistory"
    /\ pureOut.t = "array"
    /\ Len(pureOut.es) = 3
    /\ pureOut.es[1].timestamp = Num(200)
    /\ pureOut.es[2].timestamp = Num(100)
    /\ pureOut.es[3].timestamp = Num(100)
    /\ pureOut.es[2] # pureOut.es[3]
    /\ FlattenHistory(pureIn.args[1].es, 1, <<>>)[3] = pureOut.es[1]

\* C16: normalizing the result of normalizeSensors gives that result again.
C16_NormalizeIdempotent ==
    (pureIn.fn = "normalizeSensorsTwice" /\ pureOut.t # "pending") =>
        pureOut = normalizeSensors(pureIn.args[1])

\* C16 witness: a renormalized set that dropped a record, parsed a numeric
\* string and left an unparsable optional field absent
C16_Witness ==
    /\ pureIn.fn = "normalizeSensorsTwice"
    /\ pureOut.t = "object"
    /\ Keys(pureIn.args[1]) = {"sensor1", "sensor2"}
    /\ Keys(pureOut) = {"sensor1"}
    /\ Get(Get(pureIn.args[1], "sensor1"), "r_value") = Str(RatioText)
    /\ Get(Get(pureOut, "sensor1"), "r_value") = Dec(5, 1)
    /\ Get(Get(pureIn.args[1], "sensor1"), "threshold").t = "string"
    /\ Get(Get(pureOut, "sensor1"), "threshold") = Undefined

\* the volume a total text stands for, in hundredths of a litre
KnownVolume(text) ==
    CASE text = TotalText -> 1000
      [] text = VolumeText -> 250
      [] text = <<>> -> 0

\* the sum of the volumes of the well-typed records of a raw sensor set
RECURSIVE ExpectedTotal(_, _)
ExpectedTotal(es, i) ==
    IF i > Len(es) THEN 0
    ELSE (IF WellTyped(es[i].val) THEN KnownVolume(Get(es[i].val, "total").s) ELSE 0)
         + ExpectedTotal(es, i + 1)

C18_EarlierCandidateIsSilent ==
    [][(/\ \E i \in 1..Len(subs) : subs[i].path = 1
        /\ last'.kind = "value"
        /\ last'.path = 0)
           => /\ sensors' = sensors
              /\ error' = error
              /\ Len(subs') = Len(subs)]_vars

\* C20: a non-empty payload replaces the sensor set by the normalization of
\* that payload alone; nothing of the previous sensor set is kept.
C20_WholeReplace ==
    [][(last'.kind = "value" /\ Truthy(last'.data))
           => sensors' = normalizeSensors(last'.data)]_vars

\* C20 witness: sensor2 has been in the sensor set, and the set left by the
\* latest payload, which does not carry sensor2, holds sensor1 only
C20_Witness ==
    /\ "sensor2" \in seenKeys
    /\ last = Event("sensors", "value", 0, PayloadOne)
    /\ Keys(sensors) = {"sensor1"}
    /\ Get(Get(sensors, "sensor1"), "timestamp") = Num(100)

\* the step appends to the registrations of sensor id k one on the candidate after that of registration i
ChartAdvances(k, i) ==
    /\ Len(chartSubs'[k]) = Len(chartSubs[k]) + 1
    /\ chartSubs'[k][Len(chartSubs'[k])] = Registration(chartSubs[k][i].path + 1)

\* C19 (chart streams): when the registration on a candidate that is not
\* the last one receives an empty or invalid payload, raises an exception
\* while processing its payload, or receives a subscription error, a
\* registration on the next candidate in list order is created.
C19_ChartAdvancesOnEveryFailure ==
    [][\A k \in sensorIds, i \in 1..MaxChartSubs :
          /\ \A data \in ChartPayloads :
                (/\ ChartValue(k, i, data)
                 /\ chartSubs[k][i].path < Len(tryPaths) - 1
                 /\ ~ChartValid(data) \/ ParseMetricThrows(data))
                    => ChartAdvances(k, i)
          /\ (ChartError(k, i) /\ chartSubs[k][i].path < Len(tryPaths) - 1)
                => ChartAdvances(k, i)]_vars

(***************************************************************************)
(* Properties of the global scalar effect (SpecSystem)                     *)
(***************************************************************************)
\* C21: the leakage flag is isLeakageDetected of the latest finite ratio
\* and the latest finite threshold the two system paths delivered, and it
\* is false while either path has not delivered a finite value.
C21_LeakFollowsAcceptedValues ==
    /\ leakageStatus = isLeakageDetected(accepted["r_value"], accepted["threshold"])
    /\ (accepted["r_value"] = Undefined \/ accepted["threshold"] = Undefined)
           => ~leakageStatus

\* C21 witness: the threshold path delivered 1 and then went missing, the
\* ratio path delivered "2" afterwards, and the flag is raised on the stale threshold
C21_Witness ==
    /\ leakageStatus
    /\ lastOutcome["threshold"] = "missing"
    /\ accepted["threshold"] = Num(1)
    /\ lastSystem = Event("r_value", "value", 0, Str(<<"2">>))

\* C22: a notification on system/r_value leaves globalThreshold unchanged,
\* one on system/threshold leaves globalRValue unchanged, and neither
\* changes the sensor set, the history or the chart series.
C22_ScalarStreamsAreSeparate ==
    [][/\ lastSystem'.stream = "r_value" => globalThreshold' = globalThreshold
       /\ lastSystem'.stream = "threshold" => globalRValue' = globalRValue
       /\ lastSystem'.stream \in systemPaths => UNCHANGED <<sensors, history, chartData>>]_vars

\* C22 witness: a ratio was stored after a threshold, and the threshold is still there
C22_Witness ==
    /\ lastSystem = Event("r_value", "value", 0, Num(2))
    /\ globalRValue = Num(2)
    /\ globalThreshold = Dec(5, 1)
    /\ lastOutcome["threshold"] = "accepted"

\* C30: while the latest notification of either system path was a missing
\* value or a subscription error, systemError is set.
C30_ErrorOutlivesOtherStream ==
    (\E path \in systemPaths : lastOutcome[path] \in {"missing", "error"})
        => systemError # NoError

(***************************************************************************)
(* Further properties of the fallback streams                              *)
(***************************************************************************)
\* the error code of the other kind
OtherCode(code) == IF code = "PERMISSION_DENIED" THEN "NETWORK_ERROR" ELSE "PERMISSION_DENIED"

\* C23 (sensor-set stream): a subscription error on the last candidate sets
\* an error message, and the message differs from the one the other kind
\* of error (permission denied or connectivity) would have set.
C23_TerminalErrorNamesItsCause ==
    [][(last'.kind = "error" /\ last'.path = Len(tryPaths) - 1)
           => /\ error' # NoError
              /\ error' # OnSensorError(last'.path, ErrorObject(OtherCode(last'.data.code)),
                                        EffectState).error]_vars

\* C24: after the cleanup of the chart effect no registration it created,
\* for any sensor id and on any candidate, is still active.
C24_ChartCleanupReleasesAll ==
    ~chartMounted => \A k \in sensorIds : ActiveRegs(chartSubs[k]) = {}

\* C24 witness: the chart effect was cleaned up after every sensor id had
\* fallen back from its primary candidate
C24_Witness ==
    /\ ~chartMounted
    /\ \A k \in sensorIds :
           /\ Len(chartSubs[k]) = 2
           /\ chartSubs[k][1].path = 0
           /\ chartSubs[k][2].path = 1

\* the series new is the series old with one point of timestamp ts pushed at its tail
PushedOne(old, new, ts) ==
    /\ Len(new) >= 1
    /\ new[Len(new)].timestamp = ts
    /\ SubSeq(new, 1, Len(new) - 1) =
           IF Len(old) < CHART_WINDOW_SIZE THEN old ELSE Tail(old)

\* C25: a chart notification with a flow and a numeric timestamp for sensor
\* id k pushes exactly one point to series k and leaves the other series
\* unchanged; any other chart notification leaves all series unchanged.
C25_ChartFrame ==
    [][\A k \in sensorIds, i \in 1..MaxChartSubs, data \in ChartPayloads :
          ChartValue(k, i, data) =>
              IF Truthy(data) /\ Truthy(Get(data, "flow"))
                              /\ TypeOf(Get(data, "timestamp")) = "number"
              THEN /\ PushedOne(chartData[k], chartData'[k], Get(data, "timestamp"))
                   /\ \A j \in sensorIds \ {k} : chartData'[j] = chartData[j]
              ELSE chartData' = chartData]_vars

\* C28: a push puts the new point at the tail of its series whatever its
\* timestamp, and the points kept from before stay in their order.
C28_PushNeverReorders ==
    [][\A k \in sensorIds :
          Len(pushed'[k]) > Len(pushed[k]) =>
              LET old == chartData[k]
                  new == chartData'[k]
                  kept == Len(new) - 1
              IN  /\ new[Len(new)] = pushed'[k][Len(pushed'[k])]
                  /\ kept <= Len(old)
                  /\ \A n \in 1..kept : new[n] = old[Len(old) - kept + n]]_vars

\* C28 witness: the tail of a series is older than the point before it
C28_Witness ==
    \E k \in sensorIds :
        /\ Len(chartData[k]) >= 2
        /\ NumGt(chartData[k][Len(chartData[k]) - 1].timestamp,
                 chartData[k][Len(chartData[k])].timestamp)

(***************************************************************************)
(* Properties of the validators (SpecPure)                                 *)
(***************************************************************************)
\* a raw optional field that is a finite number or a string parsing to one
Coercible(raw) ==
    \/ raw.t = "number" /\ raw.k = "fin"
    \/ raw.t = "string" /\ parseFloat(raw.s).k = "fin"

\* C26: for every well-typed raw record the result has an entry, and each
\* of its optional fields is the coerced finite number when the raw field is
\* a finite number or a numeric string, and undefined (never 0) otherwise.
C26_OptionalFieldsAbsentNotZero ==
    (pureIn.fn = "normalizeSensors" /\ pureOut.t # "pending" /\ pureIn.args[1].t = "object") =>
        \A i \in 1..Len(pureIn.args[1].es) :
            LET key == pureIn.args[1].es[i].key
                raw == pureIn.args[1].es[i].val
            IN  WellTyped(raw) =>
                    /\ key \in Keys(pureOut)
                    /\ \A field \in {"r_value", "threshold"} :
                           Get(Get(pureOut, key), field) =
                               IF Coercible(Get(raw, field))
                               THEN (IF Get(raw, field).t = "number" THEN Get(raw, field)
                                     ELSE parseFloat(Get(raw, field).s))
                               ELSE Undefined

\* C26 witness: a record with r_value "abc" and threshold "-" is admitted without either field
C26_Witness ==
    /\ pureIn.fn = "normalizeSensors"
    /\ pureOut.t = "object"
    /\ "sensor1" \in Keys(pureOut)
    /\ Get(Get(pureIn.args[1], "sensor1"), "r_value") = Str(<<"a", "b", "c">>)
    /\ Get(Get(pureIn.args[1], "sensor1"), "threshold") = Str(<<"-">>)
    /\ Get(Get(pureOut, "sensor1"), "r_value") = Undefined
    /\ Get(Get(pureOut, "sensor1"), "threshold") = Undefined

\* the well-typed leaf records under sensor id s of a raw history, tagged with s
TaggedLeaves(data, s) ==
    IF data.t = "object" /\ Get(data, s).t = "object"
    THEN LET leaves == SelectSeq(Get(data, s).es, LAMBDA en : WellTyped(en.val))
         IN  [n \in 1..Len(leaves) |->
                 [sensorId |-> s, flow |-> Get(leaves[n].val, "flow"),
                  total |-> Get(leaves[n].val, "total"),
                  timestamp |-> Get(leaves[n].val, "timestamp")]]
    ELSE <<>>

\* how often e occurs in a sequence
Occurrences(seq, e) == Cardinality({n \in 1..Len(seq) : seq[n] = e})

\* C27: normalizeHistory returns every well-typed leaf record, tagged with
\* its sensor id, as often as it occurs in the input and nothing else; an
\* input or a sensor value that is not an object contributes nothing.
C27_FlattenKeepsEveryLeaf ==
    (pureIn.fn = "normalizeHistory" /\ pureOut.t # "pending") =>
        LET data == pureIn.args[1]
            out == pureOut.es
            all == TaggedLeaves(data, "sensor1") \o TaggedLeaves(data, "sensor2")
        IN  /\ Len(out) = Len(all)
            /\ \A n \in 1..Len(all) : Occurrences(out, all[n]) = Occurrences(all, all[n])

\* C27 witness: two identical leaf records of sensor1 both appear, next to
\* a sensor whose value is not an object
C27_Witness ==
    /\ pureIn.fn = "normalizeHistory"
    /\ pureOut.t = "array"
    /\ Len(pureOut.es) = 2
    /\ pureOut.es[1] = pureOut.es[2]
    /\ pureOut.es[1].sensorId = "sensor1"
    /\ Get(pureIn.args[1], "sensor2") = Num(5)

\* the active registrations on candidate pathIndex
ActiveOn(regs, pathIndex) == {i \in ActiveRegs(regs) : regs[i].path = pathIndex}

\* C29 (sensor-set stream): at most one registration is active on each
\* candidate, so at most Len(tryPaths) registrations are active in all.
C29_OneSubscriptionPerCandidate ==
    /\ \A pathIndex \in 0..(Len(tryPaths) - 1) : Cardinality(ActiveOn(subs, pathIndex)) <= 1
    /\ Cardinality(ActiveRegs(subs)) <= Len(tryPaths)

\* C31: loading turns false only in a step in which a candidate delivered
\* a non-empty payload or the last candidate answered (empty payload or
\* subscription error), and it never turns true again.
C31_LoadingClearedAtOutcome ==
    [][/\ (loading /\ ~loading') =>
              \/ (last'.kind = "value" /\ Truthy(last'.data))
              \/ (last'.kind \in {"value", "error"} /\ last'.path = Len(tryPaths) - 1)
       /\ ~loading => ~loading']_vars

\* the value stored for a system path
Stored(path) == IF path = "r_value" THEN globalRValue ELSE globalThreshold

\* C32: a missing or unparsable value and a subscription error on a system
\* path leave the value stored for that path unchanged; a stored value is a
\* finite number and is never reset to undefined.
C32_StoredScalarSurvivesBadInput ==
    /\ [](\A path \in systemPaths :
             Stored(path) = Undefined \/ (Stored(path).t = "number" /\ Stored(path).k = "fin"))
    /\ [][\A path \in systemPaths :
             /\ (lastSystem'.stream = path /\ lastOutcome'[path] \in {"missing", "invalid", "error"})
                    => UNCHANGED Stored(path)
             /\ Stored(path) # Undefined => Stored(path)' # Undefined]_vars

\* C32 witness: the ratio survived a subscription error and the threshold
\* an unparsable value
C32_Witness ==
    /\ globalRValue = Num(2)
    /\ lastOutcome["r_value"] = "error"
    /\ globalThreshold = Dec(5, 1)
    /\ lastOutcome["threshold"] = "invalid"
    /\ lastSystem = Event("threshold", "value", 0, Str(<<"a", "b", "c">>))

====
